---- MODULE Spec2Model ----
(***************************************************************************)
(* The servo DOM core: the Node record and its AbstractNode handle         *)
(* (src/servo/dom/node.rs), the selector-query adapter                     *)
(* (src/servo/css/select_handler.rs) and the layout auxiliary data         *)
(* (src/servo/layout/aux.rs).                                              *)
(*                                                                         *)
(* A handle is the index of its Node allocation; None (0) is Option::None. *)
(* A fatal failure (assert / fail!) ends the operation where it stands:    *)
(* every write made before it stays in the heap.                           *)
(***************************************************************************)
EXTENDS Integers, Sequences, FiniteSets, TLC

\* Number of Node allocations.
NumNodes == 3

Nodes == 1..NumNodes

\* Number of LayoutData boxes that may be allocated.
MaxAllocs == 2

\* In the specification of the two tasks: the successful append_child calls
\* of the owner task, and the LayoutData boxes the layout task allocates.
TaskAppends == 1
TaskAllocs == 1

\* Option::None for an Option<AbstractNode>.
None == 0

\* Tag names carried by the element nodes, and the names a query asks for.
TagNames == {"div", "span"}

\* Values of the id attribute, and the ids a query asks for: they differ in
\* case only.
Ids == {"x", "X"}

VARIABLES
    ctor,          \* the constructor that built each node
    type_id,       \* Node.type_id
    tag_name,      \* Element.tag_name ("" for a node that is not an element)
    element_type_id, \* the ElementTypeId inside ElementNodeTypeId(..) ("" for a node that is not an element)
    id_attr,       \* the value of the element's id attribute, as an Option<&str>
    layout_data,   \* Node.layout_data: None or the index of a LayoutData box
    data,          \* the slot `node.data` that initialize_layout_data assigns
    records,       \* the LayoutData boxes allocated so far, in order of allocation
    refs,          \* the DVec handed to initialize_style_for_subtree (the GC roots)
    parent_node,   \* Node.parent_node
    first_child,   \* Node.first_child
    last_child,    \* Node.last_child
    next_sibling,  \* Node.next_sibling
    prev_sibling,  \* Node.prev_sibling
    appended,      \* history: the children each node received from successful append_child calls, in order
    last           \* the call that ran last: its arguments and its outcome

rel == <<parent_node, first_child, last_child, next_sibling, prev_sibling>>
kinds == <<ctor, type_id, tag_name, element_type_id, id_attr>>
lay == <<layout_data, data, records, refs>>
vars == <<ctor, type_id, tag_name, element_type_id, id_attr,
          parent_node, first_child, last_child, next_sibling, prev_sibling,
          layout_data, data, records, refs, appended, last>>

\* The five relation fields of every node, as one value.
Heap ==
    [parent_node  |-> parent_node,
     first_child  |-> first_child,
     last_child   |-> last_child,
     next_sibling |-> next_sibling,
     prev_sibling |-> prev_sibling]

\* The relation fields of the single node n.
Relations(h, n) ==
    <<h.parent_node[n], h.first_child[n], h.last_child[n],
      h.prev_sibling[n], h.next_sibling[n]>>

----------------------------------------------------------------------------
(* Construction *)

\* The type tag each constructor hands to Node::new.
CtorTypeId(c) ==
    CASE c = "Doctype" -> "DoctypeNodeTypeId"
      [] c = "Comment" -> "CommentNodeTypeId"
      [] c = "Text"    -> "CommentNodeTypeId"
      [] c = "Element" -> "ElementNodeTypeId"

\* Node::new: every relation field is None.
NodeNew == [n \in Nodes |-> None]

\* Option<&str>: None and Some(v).
NoStr == [some |-> FALSE, val |-> ""]
SomeStr(v) == [some |-> TRUE, val |-> v]

\* Node::new leaves layout_data None; nothing is allocated or registered.
NoLayout ==
    /\ layout_data = NodeNew
    /\ data = NodeNew
    /\ records = <<>>
    /\ refs = <<>>

\* The record of a call: op(self, arg / name) under visitor stop, with its outcome.
Call(op, self, arg, name, recv, visited, ret, node) ==
    [op |-> op, self |-> self, arg |-> arg, name |-> name, recv |-> recv,
     visited |-> visited, ret |-> ret, node |-> node]

NoCall == Call("new", None, None, "", "", <<>>, "ok", None)

----------------------------------------------------------------------------
(* Tree mutation *)

\* append_child with the self-attachment assertion left out.
append_child_no_self_assert(h, self, child) ==
    IF \/ h.parent_node[child] # None
       \/ h.prev_sibling[child] # None
       \/ h.next_sibling[child] # None
    THEN [heap |-> h, ok |-> FALSE]
    ELSE LET h1 == [h EXCEPT !.parent_node[child] = self]
             lc == h1.last_child[self]
         IN  IF lc = None
             THEN LET h2 == [h1 EXCEPT !.first_child[self] = child]
                  IN  [heap |-> [h2 EXCEPT !.prev_sibling[child] = h2.last_child[self]],
                       ok |-> TRUE]
             ELSE IF h1.next_sibling[lc] # None
                  THEN [heap |-> h1, ok |-> FALSE]
                  ELSE LET h2 == [h1 EXCEPT !.next_sibling[lc] = child]
                       IN  [heap |-> [h2 EXCEPT !.prev_sibling[child] = h2.last_child[self]],
                            ok |-> TRUE]

\* append_child with the assertion on the child's parent left out.
append_child_no_parent_assert(h, self, child) ==
    IF self = child
    THEN [heap |-> h, ok |-> FALSE]
    ELSE IF \/ h.prev_sibling[child] # None
            \/ h.next_sibling[child] # None
    THEN [heap |-> h, ok |-> FALSE]
    ELSE LET h1 == [h EXCEPT !.parent_node[child] = self]
             lc == h1.last_child[self]
         IN  IF lc = None
             THEN LET h2 == [h1 EXCEPT !.first_child[self] = child]
                  IN  [heap |-> [h2 EXCEPT !.prev_sibling[child] = h2.last_child[self]],
                       ok |-> TRUE]
             ELSE IF h1.next_sibling[lc] # None
                  THEN [heap |-> h1, ok |-> FALSE]
                  ELSE LET h2 == [h1 EXCEPT !.next_sibling[lc] = child]
                       IN  [heap |-> [h2 EXCEPT !.prev_sibling[child] = h2.last_child[self]],
                            ok |-> TRUE]

\* append_child with the write of child.parent moved ahead of the
\* assertions.
append_child_write_before_assert(h, self, child) ==
    LET h1 == [h EXCEPT !.parent_node[child] = self]
    IN  IF self = child
        THEN [heap |-> h1, ok |-> FALSE]
        ELSE IF \/ h.parent_node[child] # None
                \/ h.prev_sibling[child] # None
                \/ h.next_sibling[child] # None
        THEN [heap |-> h1, ok |-> FALSE]
        ELSE LET lc == h1.last_child[self]
             IN  IF lc = None
                 THEN LET h2 == [h1 EXCEPT !.first_child[self] = child]
                      IN  [heap |-> [h2 EXCEPT !.prev_sibling[child] = h2.last_child[self]],
                           ok |-> TRUE]
                 ELSE IF h1.next_sibling[lc] # None
                      THEN [heap |-> h1, ok |-> FALSE]
                      ELSE LET h2 == [h1 EXCEPT !.next_sibling[lc] = child]
                           IN  [heap |-> [h2 EXCEPT !.prev_sibling[child] = h2.last_child[self]],
                                ok |-> TRUE]

\* AbstractNode::append_child on heap h: the heap it leaves and whether it
\* returned (ok) or failed an assertion.  The writes are made in the order of
\* the code; the assertion on the old last child comes after the write of
\* child.parent.  No statement writes self.last_child.
append_child(h, self, child) ==
    IF self = child
    THEN [heap |-> h, ok |-> FALSE]
    ELSE IF \/ h.parent_node[child] # None
            \/ h.prev_sibling[child] # None
            \/ h.next_sibling[child] # None
    THEN [heap |-> h, ok |-> FALSE]
    ELSE LET h1 == [h EXCEPT !.parent_node[child] = self]
             lc == h1.last_child[self]
         IN  IF lc = None
             THEN LET h2 == [h1 EXCEPT !.first_child[self] = child]
                  IN  [heap |-> [h2 EXCEPT !.prev_sibling[child] = h2.last_child[self]],
                       ok |-> TRUE]
             ELSE IF h1.next_sibling[lc] # None
                  THEN [heap |-> h1, ok |-> FALSE]
                  ELSE LET h2 == [h1 EXCEPT !.next_sibling[lc] = child]
                       IN  [heap |-> [h2 EXCEPT !.prev_sibling[child] = h2.last_child[self]],
                            ok |-> TRUE]

\* AppendChild that also clears the layout slot of the child it attached.
AppendChild_resets_layout(self, child) ==
    LET r == append_child(Heap, self, child)
    IN  /\ parent_node'  = r.heap.parent_node
        /\ first_child'  = r.heap.first_child
        /\ last_child'   = r.heap.last_child
        /\ next_sibling' = r.heap.next_sibling
        /\ prev_sibling' = r.heap.prev_sibling
        /\ appended' = IF r.ok
                       THEN [appended EXCEPT ![self] = Append(@, child)]
                       ELSE appended
        /\ last' = Call("append_child", self, child, "", "", <<>>,
                        IF r.ok THEN "ok" ELSE "fail", None)
        /\ layout_data' = IF r.ok THEN [layout_data EXCEPT ![child] = None] ELSE layout_data
        /\ data' = IF r.ok THEN [data EXCEPT ![child] = None] ELSE data
        /\ UNCHANGED <<kinds, records, refs>>

\* A call self.append_child(child).
AppendChild(self, child) ==
    LET r == append_child(Heap, self, child)
    IN  /\ parent_node'  = r.heap.parent_node
        /\ first_child'  = r.heap.first_child
        /\ last_child'   = r.heap.last_child
        /\ next_sibling' = r.heap.next_sibling
        /\ prev_sibling' = r.heap.prev_sibling
        /\ appended' = IF r.ok
                       THEN [appended EXCEPT ![self] = Append(@, child)]
                       ELSE appended
        /\ last' = Call("append_child", self, child, "", "", <<>>,
                        IF r.ok THEN "ok" ELSE "fail", None)
        /\ UNCHANGED <<kinds, lay>>

----------------------------------------------------------------------------
(* Tree traversal.  A visitor is given by the node at which it returns      *)
(* false (stop); the visitor with stop = None never requests a stop.        *)

is_leaf(self) == first_child[self] = None

\* The while loop of each_child from current_opt on.  A sibling chain that
\* is still not exhausted after NumNodes visits has revisited a node the
\* visitor did not stop at, and the loop never ends ("diverge").
RECURSIVE each_child_loop(_, _, _)
each_child_loop(current_opt, stop, fuel) ==
    IF current_opt = None
    THEN [visited |-> <<>>, ret |-> "done"]
    ELSE IF fuel = 0
    THEN [visited |-> <<>>, ret |-> "diverge"]
    ELSE IF current_opt = stop
    THEN [visited |-> <<current_opt>>, ret |-> "done"]
    ELSE LET rest == each_child_loop(next_sibling[current_opt], stop, fuel - 1)
         IN  [visited |-> <<current_opt>> \o rest.visited, ret |-> rest.ret]

\* AbstractNode::each_child: the nodes handed to the visitor, in order.
each_child(self, stop) == each_child_loop(first_child[self], stop, NumNodes)

\* The recursive call of the two traversals is written
\* self.traverse_preorder(kid): the receiver is self and the argument, where
\* the visitor belongs, is kid.  Both resolutions are modelled: the
\* recursion runs on the receiver as written ("self") or on the kid ("kid"),
\* with the visitor f.
Receivers == {"self", "kid"}

\* AbstractNode::traverse_preorder.  depth is the number of nested calls
\* left: a call nested deeper than NumNodes has a node twice on its call
\* path and the recursion never ends ("overflow").
RECURSIVE traverse_preorder(_, _, _, _)
RECURSIVE preorder_kids(_, _, _, _, _, _)
traverse_preorder(recv, self, stop, depth) ==
    IF depth = 0
    THEN [visited |-> <<>>, ret |-> "overflow"]
    ELSE IF self = stop
    THEN [visited |-> <<self>>, ret |-> "false"]
    ELSE LET k == preorder_kids(recv, self, first_child[self], stop, depth, NumNodes)
         IN  [visited |-> <<self>> \o k.visited, ret |-> k.ret]

\* The for loop over self.each_child inside traverse_preorder.
preorder_kids(recv, self, current_opt, stop, depth, fuel) ==
    IF current_opt = None
    THEN [visited |-> <<>>, ret |-> "true"]
    ELSE IF fuel = 0
    THEN [visited |-> <<>>, ret |-> "diverge"]
    ELSE LET sub == traverse_preorder(recv,
                        IF recv = "kid" THEN current_opt ELSE self,
                        stop, depth - 1)
         IN  IF sub.ret # "true"
             THEN sub
             ELSE LET rest == preorder_kids(recv, self, next_sibling[current_opt],
                                            stop, depth, fuel - 1)
                  IN  [visited |-> sub.visited \o rest.visited, ret |-> rest.ret]

\* AbstractNode::traverse_postorder.
RECURSIVE traverse_postorder(_, _, _, _)
RECURSIVE postorder_kids(_, _, _, _, _, _)
traverse_postorder(recv, self, stop, depth) ==
    IF depth = 0
    THEN [visited |-> <<>>, ret |-> "overflow"]
    ELSE LET k == postorder_kids(recv, self, first_child[self], stop, depth, NumNodes)
         IN  IF k.ret # "true"
             THEN k
             ELSE [visited |-> k.visited \o <<self>>,
                   ret |-> IF self = stop THEN "false" ELSE "true"]

\* The for loop over self.each_child inside traverse_postorder.
postorder_kids(recv, self, current_opt, stop, depth, fuel) ==
    IF current_opt = None
    THEN [visited |-> <<>>, ret |-> "true"]
    ELSE IF fuel = 0
    THEN [visited |-> <<>>, ret |-> "diverge"]
    ELSE LET sub == traverse_postorder(recv,
                        IF recv = "kid" THEN current_opt ELSE self,
                        stop, depth - 1)
         IN  IF sub.ret # "true"
             THEN sub
             ELSE LET rest == postorder_kids(recv, self, next_sibling[current_opt],
                                             stop, depth, fuel - 1)
                  IN  [visited |-> sub.visited \o rest.visited, ret |-> rest.ret]

\* A call self.each_child(f).
EachChild(self, stop) ==
    LET r == each_child(self, stop)
    IN  /\ last' = Call("each_child", self, stop, "", "", r.visited, r.ret, None)
        /\ UNCHANGED <<kinds, rel, lay, appended>>

\* A call self.traverse_preorder(f).
TraversePreorder(recv, self, stop) ==
    LET r == traverse_preorder(recv, self, stop, NumNodes)
    IN  /\ last' = Call("traverse_preorder", self, stop, "", recv, r.visited, r.ret, None)
        /\ UNCHANGED <<kinds, rel, lay, appended>>

\* A call self.traverse_postorder(f).
TraversePostorder(recv, self, stop) ==
    LET r == traverse_postorder(recv, self, stop, NumNodes)
    IN  /\ last' = Call("traverse_postorder", self, stop, "", recv, r.visited, r.ret, None)
        /\ UNCHANGED <<kinds, rel, lay, appended>>

----------------------------------------------------------------------------
(* The selector-query adapter.  An operation ends with ret "some" (and the  *)
(* handle in node), "none", "fail" (fail! was reached) or "diverge" (the    *)
(* loop never ends).                                                        *)

is_element(node) == type_id[node] = "ElementNodeTypeId"

\* with_node_name: fails on a node that is not an element, otherwise hands
\* the tag name of the element to the body.
with_node_name(node) ==
    IF ~is_element(node)
    THEN [ok |-> FALSE, node_name |-> ""]
    ELSE [ok |-> TRUE, node_name |-> tag_name[node]]

\* NodeSelectHandler::parent_node
parent_node_of(node) == parent_node[node]

\* NodeSelectHandler::named_parent_node
named_parent_node(node, name) ==
    LET parent == parent_node[node]
    IN  IF parent # None
        THEN LET w == with_node_name(parent)
             IN  IF ~w.ok
                 THEN [ret |-> "fail", node |-> None]
                 ELSE IF name = w.node_name
                      THEN [ret |-> "some", node |-> parent]
                      ELSE [ret |-> "none", node |-> None]
        ELSE [ret |-> "none", node |-> None]

\* The loop of named_ancestor_node from node on.  A walk still going after
\* NumNodes upward steps has met a node twice: the parent chain is a cycle
\* without a match, and the loop never ends.
RECURSIVE named_ancestor_loop(_, _, _)
named_ancestor_loop(node, name, fuel) ==
    LET parent == parent_node[node]
    IN  IF parent = None
        THEN [ret |-> "none", node |-> None, steps |-> 0]
        ELSE IF fuel = 0
        THEN [ret |-> "diverge", node |-> None, steps |-> 0]
        ELSE LET w == with_node_name(parent)
             IN  IF ~w.ok
                 THEN [ret |-> "fail", node |-> None, steps |-> 1]
                 ELSE IF name = w.node_name
                      THEN [ret |-> "some", node |-> parent, steps |-> 1]
                      ELSE LET r == named_ancestor_loop(parent, name, fuel - 1)
                           IN  [r EXCEPT !.steps = @ + 1]

\* NodeSelectHandler::named_ancestor_node
named_ancestor_node(node, name) == named_ancestor_loop(node, name, NumNodes)

\* A call named_parent_node(node, name).
NamedParentNode(node, name) ==
    LET r == named_parent_node(node, name)
    IN  /\ last' = Call("named_parent_node", node, None, name, "", <<>>, r.ret, r.node)
        /\ UNCHANGED <<kinds, rel, lay, appended>>

\* A call named_ancestor_node(node, name).
NamedAncestorNode(node, name) ==
    LET r == named_ancestor_node(node, name)
    IN  /\ last' = Call("named_ancestor_node", node, None, name, "", <<>>, r.ret, r.node)
        /\ UNCHANGED <<kinds, rel, lay, appended>>

\* Element::get_attr: the value of the attribute, if the element has it.
\* Only the id attribute is kept.
get_attr(node, name) == IF name = "id" THEN id_attr[node] ELSE NoStr

\* NodeSelectHandler::with_node_id: fails on a node that is not an element,
\* otherwise hands get_attr("id") to the body.
with_node_id(node) ==
    IF ~is_element(node)
    THEN [ok |-> FALSE, id |-> NoStr]
    ELSE [ok |-> TRUE, id |-> get_attr(node, "id")]

\* node_has_id answering false for a node that is not an element.
node_has_id_default(node, id) ==
    IF ~is_element(node)
    THEN [ok |-> TRUE, value |-> FALSE]
    ELSE LET existing_id == get_attr(node, "id")
         IN  IF ~existing_id.some
             THEN [ok |-> TRUE, value |-> FALSE]
             ELSE [ok |-> TRUE, value |-> (id = existing_id.val)]

\* NodeSelectHandler::node_has_id
node_has_id(node, id) ==
    IF ~is_element(node)
    THEN [ok |-> FALSE, value |-> FALSE]
    ELSE LET existing_id == get_attr(node, "id")
         IN  IF ~existing_id.some
             THEN [ok |-> TRUE, value |-> FALSE]
             ELSE [ok |-> TRUE, value |-> (id = existing_id.val)]

\* A call with_node_name(node, f): ret is "fail", or "called" with the name
\* the body received.
WithNodeName(node) ==
    LET w == with_node_name(node)
    IN  /\ last' = Call("with_node_name", node, None, w.node_name, "", <<>>,
                        IF w.ok THEN "called" ELSE "fail", None)
        /\ UNCHANGED <<kinds, rel, lay, appended>>

\* A call with_node_id(node, f): ret is "fail", or "called_some" with the id
\* the body received, or "called_none".
WithNodeId(node) ==
    LET w == with_node_id(node)
    IN  /\ last' = Call("with_node_id", node, None, w.id.val, "", <<>>,
                        IF ~w.ok THEN "fail"
                        ELSE IF w.id.some THEN "called_some" ELSE "called_none",
                        None)
        /\ UNCHANGED <<kinds, rel, lay, appended>>

\* A call node_has_id(node, id).
NodeHasId(node, id) ==
    LET r == node_has_id(node, id)
    IN  /\ last' = Call("node_has_id", node, None, id, "", <<>>,
                        IF ~r.ok THEN "fail"
                        ELSE IF r.value THEN "true" ELSE "false",
                        None)
        /\ UNCHANGED <<kinds, rel, lay, appended>>

----------------------------------------------------------------------------
(* Downcasts: tag inspection, and the casts that fail on a tag mismatch.    *)

\* The element types told apart by the tag checks, and one other.
ElementTypeIds ==
    {"HTMLImageElementTypeId", "HTMLStyleElementTypeId", "HTMLDivElementTypeId"}

is_text(self) == type_id[self] = "TextNodeTypeId"

is_image_element(self) ==
    type_id[self] = "ElementNodeTypeId" /\ element_type_id[self] = "HTMLImageElementTypeId"

is_style_element(self) ==
    type_id[self] = "ElementNodeTypeId" /\ element_type_id[self] = "HTMLStyleElementTypeId"

\* AbstractNode::as_text: "ok" for the reinterpreted handle, "fail" for fail!.
as_text(self) == IF ~is_text(self) THEN "fail" ELSE "ok"

\* AbstractNode::as_element
as_element(self) == IF ~is_element(self) THEN "fail" ELSE "ok"

\* AbstractNode::as_image_element
as_image_element(self) == IF ~is_image_element(self) THEN "fail" ELSE "ok"

\* A call self.as_text().
AsText(self) ==
    /\ last' = Call("as_text", self, None, "", "", <<>>, as_text(self), None)
    /\ UNCHANGED <<kinds, rel, lay, appended>>

\* A call self.as_element().
AsElement(self) ==
    /\ last' = Call("as_element", self, None, "", "", <<>>, as_element(self), None)
    /\ UNCHANGED <<kinds, rel, lay, appended>>

\* A call self.as_image_element().
AsImageElement(self) ==
    /\ last' = Call("as_image_element", self, None, "", "", <<>>,
                    as_image_element(self), None)
    /\ UNCHANGED <<kinds, rel, lay, appended>>

----------------------------------------------------------------------------
(* Layout auxiliary data.  A LayoutData box is known by its index in        *)
(* records; records[i].node remembers the node the box was created for.     *)

\* The layout slots of every node, the boxes and the roots, as one value.
Layout ==
    [layout_data |-> layout_data,
     data        |-> data,
     records     |-> records,
     refs        |-> refs]

\* LayoutData::new
LayoutDataNew == [style |-> None, flow |-> None]

\* AbstractNode::initialize_layout_data on layout state l: the state it
\* leaves and the Option it returns (None, or the index of the new box).
\* The match reads node.layout_data; the assignment is to node.data.
initialize_layout_data(l, self) ==
    IF l.layout_data[self] # None
    THEN [lay |-> l, ret |-> None]
    ELSE LET box == Len(l.records) + 1
             l1 == [l EXCEPT !.records = Append(@,
                        [node |-> self,
                         style |-> LayoutDataNew.style,
                         flow |-> LayoutDataNew.flow])]
         IN  [lay |-> [l1 EXCEPT !.data[self] = box], ret |-> box]

\* The closure of initialize_style_for_subtree ends with the match, whose
\* arms are of unit type, where traverse_preorder expects a bool: the value
\* the traversal sees is taken either way.
UnitAsBool == {"true", "false"}

\* The closure of initialize_style_for_subtree applied to the nodes visited
\* from the i-th on: initialize_layout_data, and refs.push of what it returns.
RECURSIVE style_visits(_, _, _)
style_visits(l, visited, i) ==
    IF i > Len(visited)
    THEN l
    ELSE LET r == initialize_layout_data(l, visited[i])
         IN  style_visits(IF r.ret # None
                          THEN [r.lay EXCEPT !.refs = Append(@, r.ret)]
                          ELSE r.lay,
                          visited, i + 1)

\* AbstractNode::initialize_style_for_subtree: a pre-order traversal whose
\* visitor is the closure above.
initialize_style_for_subtree(l, recv, unit, self) ==
    LET t == traverse_preorder(recv, self, IF unit = "true" THEN None ELSE self, NumNodes)
    IN  [lay |-> style_visits(l, t.visited, 1),
         visited |-> t.visited,
         ret |-> IF t.ret \in {"true", "false"} THEN "done" ELSE t.ret]

\* A call self.initialize_layout_data(); arg is layout_data of self before
\* the call, node the box returned.
InitializeLayoutData(self) ==
    LET r == initialize_layout_data(Layout, self)
    IN  /\ Len(r.lay.records) <= MaxAllocs
        /\ layout_data' = r.lay.layout_data
        /\ data' = r.lay.data
        /\ records' = r.lay.records
        /\ refs' = r.lay.refs
        /\ last' = Call("initialize_layout_data", self, layout_data[self], "", "", <<>>,
                        IF r.ret = None THEN "none" ELSE "some", r.ret)
        /\ UNCHANGED <<kinds, rel, appended>>

\* A call self.initialize_style_for_subtree(refs).
InitializeStyleForSubtree(recv, unit, self) ==
    LET r == initialize_style_for_subtree(Layout, recv, unit, self)
    IN  /\ Len(r.lay.records) <= MaxAllocs
        /\ layout_data' = r.lay.layout_data
        /\ data' = r.lay.data
        /\ records' = r.lay.records
        /\ refs' = r.lay.refs
        /\ last' = Call("initialize_style_for_subtree", self, None, unit, recv,
                        r.visited, r.ret, None)
        /\ UNCHANGED <<kinds, rel, appended>>

----------------------------------------------------------------------------
(* Specification of the tree operations.  They never read type_id or        *)
(* tag_name, so every node is an element here.                              *)

Init ==
    /\ ctor = [n \in Nodes |-> "Element"]
    /\ type_id = [n \in Nodes |-> CtorTypeId(ctor[n])]
    /\ tag_name = [n \in Nodes |-> "div"]
    /\ element_type_id = [n \in Nodes |-> "HTMLDivElementTypeId"]
    /\ id_attr = [n \in Nodes |-> NoStr]
    /\ NoLayout
    /\ parent_node = NodeNew
    /\ first_child = NodeNew
    /\ last_child = NodeNew
    /\ next_sibling = NodeNew
    /\ prev_sibling = NodeNew
    /\ appended = [n \in Nodes |-> <<>>]
    /\ last = NoCall

Next ==
    \/ \E self \in Nodes, child \in Nodes : AppendChild(self, child)
    \/ \E self \in Nodes, stop \in Nodes \cup {None} : EachChild(self, stop)
    \/ \E recv \in Receivers, self \in Nodes, stop \in Nodes \cup {None} :
          TraversePreorder(recv, self, stop)
    \/ \E recv \in Receivers, self \in Nodes, stop \in Nodes \cup {None} :
          TraversePostorder(recv, self, stop)

Spec == Init /\ [][Next]_vars

----------------------------------------------------------------------------
(* Specification of the selector queries: nodes of every kind, wired by     *)
(* append_child and queried by name.                                        *)

\* What a constructor call fixes: the constructor and, for an element, its
\* tag name.
NodeKinds ==
    {[ctor |-> c, tag_name |-> ""] : c \in {"Doctype", "Comment", "Text"}}
    \cup {[ctor |-> "Element", tag_name |-> t] : t \in TagNames}

InitSelect ==
    /\ \E k \in [Nodes -> NodeKinds] :
          /\ ctor = [n \in Nodes |-> k[n].ctor]
          /\ type_id = [n \in Nodes |-> CtorTypeId(k[n].ctor)]
          /\ tag_name = [n \in Nodes |-> k[n].tag_name]
          /\ element_type_id = [n \in Nodes |->
                IF k[n].ctor = "Element" THEN "HTMLDivElementTypeId" ELSE ""]
    /\ id_attr = [n \in Nodes |-> NoStr]
    /\ NoLayout
    /\ parent_node = NodeNew
    /\ first_child = NodeNew
    /\ last_child = NodeNew
    /\ next_sibling = NodeNew
    /\ prev_sibling = NodeNew
    /\ appended = [n \in Nodes |-> <<>>]
    /\ last = NoCall

NextSelect ==
    \/ \E self \in Nodes, child \in Nodes : AppendChild(self, child)
    \/ \E node \in Nodes, name \in TagNames : NamedParentNode(node, name)
    \/ \E node \in Nodes, name \in TagNames : NamedAncestorNode(node, name)

SpecSelect == InitSelect /\ [][NextSelect]_vars

----------------------------------------------------------------------------
(* Specification of the name and id queries on single nodes: nodes of every *)
(* kind, elements with and without an id attribute.                         *)

IdKinds ==
    {[ctor |-> c, tag_name |-> "", id |-> NoStr] : c \in {"Doctype", "Comment", "Text"}}
    \cup {[ctor |-> "Element", tag_name |-> t, id |-> i] :
             t \in TagNames, i \in {NoStr} \cup {SomeStr(v) : v \in Ids}}

InitId ==
    /\ \E k \in [Nodes -> IdKinds] :
          /\ ctor = [n \in Nodes |-> k[n].ctor]
          /\ type_id = [n \in Nodes |-> CtorTypeId(k[n].ctor)]
          /\ tag_name = [n \in Nodes |-> k[n].tag_name]
          /\ element_type_id = [n \in Nodes |->
                IF k[n].ctor = "Element" THEN "HTMLDivElementTypeId" ELSE ""]
          /\ id_attr = [n \in Nodes |-> k[n].id]
    /\ NoLayout
    /\ parent_node = NodeNew
    /\ first_child = NodeNew
    /\ last_child = NodeNew
    /\ next_sibling = NodeNew
    /\ prev_sibling = NodeNew
    /\ appended = [n \in Nodes |-> <<>>]
    /\ last = NoCall

NextId ==
    \/ \E node \in Nodes : WithNodeName(node)
    \/ \E node \in Nodes : WithNodeId(node)
    \/ \E node \in Nodes, id \in Ids : NodeHasId(node, id)

SpecId == InitId /\ [][NextId]_vars

----------------------------------------------------------------------------
(* Specification of the layout pass interleaved with the owner's            *)
(* append_child calls.  Nothing here reads type_id, so the nodes are those  *)
(* of Init.                                                                 *)

NextLayout ==
    \/ \E self \in Nodes, child \in Nodes : AppendChild(self, child)
    \/ \E self \in Nodes : InitializeLayoutData(self)
    \/ \E recv \in Receivers, unit \in UnitAsBool, self \in Nodes :
          InitializeStyleForSubtree(recv, unit, self)

SpecLayout == Init /\ [][NextLayout]_vars

----------------------------------------------------------------------------
(* Specification of the two tasks: the owner task appends while the layout  *)
(* task initialises layout data, in any interleaving; each task is held to  *)
(* a few effective calls.                                                   *)

\* The successful append_child calls made so far.
RECURSIVE SumLen(_, _)
SumLen(f, n) == IF n = 0 THEN 0 ELSE Len(f[n]) + SumLen(f, n - 1)

Appends == SumLen(appended, NumNodes)

NextTasks ==
    \/ \E self \in Nodes, child \in Nodes :
          AppendChild(self, child) /\ Appends' <= TaskAppends
    \/ \E self \in Nodes :
          InitializeLayoutData(self) /\ Len(records') <= TaskAllocs
    \/ \E recv \in Receivers, unit \in UnitAsBool, self \in Nodes :
          InitializeStyleForSubtree(recv, unit, self) /\ Len(records') <= TaskAllocs

SpecTasks == Init /\ [][NextTasks]_vars

----------------------------------------------------------------------------
(* Specification of the downcasts: nodes built by every constructor,        *)
(* elements of every element type.                                          *)

CastKinds ==
    {[ctor |-> c, etype |-> ""] : c \in {"Doctype", "Comment", "Text"}}
    \cup {[ctor |-> "Element", etype |-> e] : e \in ElementTypeIds}

InitCast ==
    /\ \E k \in [Nodes -> CastKinds] :
          /\ ctor = [n \in Nodes |-> k[n].ctor]
          /\ type_id = [n \in Nodes |-> CtorTypeId(k[n].ctor)]
          /\ tag_name = [n \in Nodes |-> IF k[n].ctor = "Element" THEN "div" ELSE ""]
          /\ element_type_id = [n \in Nodes |-> k[n].etype]
    /\ id_attr = [n \in Nodes |-> NoStr]
    /\ NoLayout
    /\ parent_node = NodeNew
    /\ first_child = NodeNew
    /\ last_child = NodeNew
    /\ next_sibling = NodeNew
    /\ prev_sibling = NodeNew
    /\ appended = [n \in Nodes |-> <<>>]
    /\ last = NoCall

NextCast ==
    \/ \E self \in Nodes : AsText(self)
    \/ \E self \in Nodes : AsElement(self)
    \/ \E self \in Nodes : AsImageElement(self)

SpecCast == InitCast /\ [][NextCast]_vars

----------------------------------------------------------------------------
(* Specification of the walks that must end: trees wired by append_child,   *)
(* walked upward by named_ancestor_node and downward by traverse_preorder   *)
(* with a visitor that never stops.                                         *)

NextTerm ==
    \/ \E self \in Nodes, child \in Nodes : AppendChild(self, child)
    \/ \E recv \in Receivers, self \in Nodes : TraversePreorder(recv, self, None)
    \/ \E node \in Nodes, name \in TagNames : NamedAncestorNode(node, name)

SpecTerm == Init /\ [][NextTerm]_vars

----------------------------------------------------------------------------
(* Vocabulary of the properties *)

\* The nodes met from cur on by following next_sibling, at most fuel of them.
RECURSIVE SiblingChain(_, _)
SiblingChain(cur, fuel) ==
    IF cur = None \/ fuel = 0
    THEN <<>>
    ELSE <<cur>> \o SiblingChain(next_sibling[cur], fuel - 1)

\* The proper ancestors of n, nearest first, at most fuel of them.
RECURSIVE AncestorChain(_, _)
AncestorChain(n, fuel) ==
    IF parent_node[n] = None \/ fuel = 0
    THEN <<>>
    ELSE <<parent_node[n]>> \o AncestorChain(parent_node[n], fuel - 1)

Range(sq) == {sq[i] : i \in 1..Len(sq)}

ProperAncestors(n) == Range(AncestorChain(n, NumNodes))

\* The parent relation has no cycle.
Acyclic == \A n \in Nodes : n \notin ProperAncestors(n)

\* The subtree of p: p and every node below it.
Subtree(p) == {p} \cup {n \in Nodes : p \in ProperAncestors(n)}

\* The position of x in a sequence that holds it once.
Pos(sq, x) == CHOOSE i \in 1..Len(sq) : sq[i] = x

\* sq holds every member of S exactly once and nothing else.
EnumeratesOnce(sq, S) ==
    /\ Len(sq) = Cardinality(S)
    /\ Range(sq) = S

----------------------------------------------------------------------------
(* Properties of append_child *)

\* C1: after append_child(A, B) returns, B.parent == A, A.last_child == B and
\* B is reachable from A.first_child by following next_sibling.
C1_AppendLinksChild ==
    (last.op = "append_child" /\ last.ret = "ok") =>
        /\ parent_node[last.arg] = last.self
        /\ last_child[last.self] = last.arg
        /\ last.arg \in Range(SiblingChain(first_child[last.self], NumNodes))

\* C2: in every node first_child and last_child are absent together or
\* present together, the next_sibling chain from first_child ends exactly at
\* last_child, and prev_sibling mirrors next_sibling along the chain.
C2_ChildListWellFormed ==
    \A n \in Nodes :
        LET chain == SiblingChain(first_child[n], NumNodes + 1)
        IN  /\ (first_child[n] = None) <=> (last_child[n] = None)
            /\ first_child[n] # None =>
                  /\ Len(chain) <= NumNodes
                  /\ chain[Len(chain)] = last_child[n]
            /\ \A i \in 1..(Len(chain) - 1) : prev_sibling[chain[i + 1]] = chain[i]

\* C3: append_child(A, A) fails fatally and leaves parent, first_child,
\* last_child, prev_sibling and next_sibling of A as they were.
C3_SelfAppendFails ==
    [][(last'.op = "append_child" /\ last'.self = last'.arg) =>
          /\ last'.ret = "fail"
          /\ Relations(Heap', last'.self) = Relations(Heap, last'.self)]_vars

\* C3 happens: append_child(A, A) was called on a node A that has a parent
\* and a child, and failed.
C3_Witness ==
    /\ last.op = "append_child"
    /\ last.self = last.arg
    /\ last.ret = "fail"
    /\ parent_node[last.self] # None
    /\ first_child[last.self] # None

\* C4: append_child(A, B) on a B that has a parent fails fatally and leaves
\* the relation fields of A and of B as they were; no step changes a parent
\* that is set.
C4_ReparentFails ==
    [][\A b \in Nodes :
          parent_node[b] # None =>
              /\ parent_node'[b] = parent_node[b]
              /\ (last'.op = "append_child" /\ last'.arg = b) =>
                    /\ last'.ret = "fail"
                    /\ Relations(Heap', last'.self) = Relations(Heap, last'.self)
                    /\ Relations(Heap', b) = Relations(Heap, b)]_vars

\* C4 happens: append_child(A, B) was called with B the child of a third
\* node, and failed on B's parent alone.
C4_Witness ==
    /\ last.op = "append_child"
    /\ last.ret = "fail"
    /\ last.self # last.arg
    /\ parent_node[last.arg] \notin {None, last.self}
    /\ prev_sibling[last.arg] = None
    /\ next_sibling[last.arg] = None

----------------------------------------------------------------------------
(* Properties of the traversals *)

\* C5: each_child(P) with a visitor that never stops visits exactly the
\* children appended to P, in the order of their append_child calls, each
\* once; nothing for a leaf.
C5_EachChildOrder ==
    (last.op = "each_child" /\ last.arg = None) =>
        /\ last.ret = "done"
        /\ last.visited = appended[last.self]

\* C6: on a tree, traverse_preorder(P) and traverse_postorder(P) with a
\* visitor that never stops return true and visit every node of P's subtree
\* exactly once; pre-order visits a node before its descendants, post-order
\* after them, and both finish the subtree of an earlier sibling before they
\* enter the subtree of a later one.
C6_TraversalOrder ==
    (/\ last.op \in {"traverse_preorder", "traverse_postorder"}
     /\ last.arg = None
     /\ Acyclic) =>
        LET v == last.visited
            S == Subtree(last.self)
        IN  /\ last.ret = "true"
            /\ EnumeratesOnce(v, S)
            /\ \A x \in S : \A y \in Subtree(x) \ {x} :
                  IF last.op = "traverse_preorder"
                  THEN Pos(v, x) < Pos(v, y)
                  ELSE Pos(v, y) < Pos(v, x)
            /\ \A q \in S : \A i, j \in 1..Len(appended[q]) :
                  i < j =>
                      \A x \in Subtree(appended[q][i]) :
                          \A y \in Subtree(appended[q][j]) : Pos(v, x) < Pos(v, y)

\* C7: once the visitor of traverse_preorder returns false at X nothing more
\* is visited and the call returns false; for P whose children C1 .. Cn are
\* leaves appended in that order and a visitor that stops at Ck, the nodes
\* visited are exactly P, C1, .., Ck.
C7_PreorderEarlyStop ==
    (last.op = "traverse_preorder" /\ last.arg # None) =>
        LET v == last.visited
            P == last.self
            cs == appended[P]
        IN  /\ last.arg \in Range(v) =>
                  /\ last.ret = "false"
                  /\ \A i \in 1..Len(v) : v[i] = last.arg <=> i = Len(v)
            /\ \A k \in 1..Len(cs) :
                  (/\ last.arg = cs[k]
                   /\ parent_node[P] = None
                   /\ \A i \in 1..Len(cs) : appended[cs[i]] = <<>>) =>
                      v = <<P>> \o SubSeq(cs, 1, k)

----------------------------------------------------------------------------
(* Properties of the selector queries *)

\* C8: named_parent_node(n, s) returns n's parent if and only if the parent
\* exists, is an element and has tag name s; in every other case, a parent
\* that is not an element among them, it returns absent.
C8_NamedParentNode ==
    last.op = "named_parent_node" =>
        LET p == parent_node[last.self]
        IN  IF p # None /\ is_element(p) /\ tag_name[p] = last.name
            THEN last.ret = "some" /\ last.node = p
            ELSE last.ret = "none"

\* C9: for n whose proper ancestors are all elements, named_ancestor_node(n, s)
\* returns the nearest proper ancestor with tag name s, never n itself, and
\* absent when no proper ancestor has tag name s.
C9_NamedAncestorNode ==
    (/\ last.op = "named_ancestor_node"
     /\ \A a \in ProperAncestors(last.self) : is_element(a)) =>
        LET up == AncestorChain(last.self, NumNodes)
            hits == {i \in 1..Len(up) : tag_name[up[i]] = last.name}
        IN  IF hits = {}
            THEN last.ret = "none"
            ELSE /\ last.ret = "some"
                 /\ last.node = up[CHOOSE i \in hits : \A j \in hits : i <= j]
                 /\ last.node # last.self

\* C10: named_parent_node and named_ancestor_node always complete with a
\* handle or with absent; they never abort, whatever the kinds of the
\* ancestors.
C10_QueriesNeverAbort ==
    last.op \in {"named_parent_node", "named_ancestor_node"} =>
        last.ret \in {"some", "none"}

----------------------------------------------------------------------------
(* Properties of the name and id queries *)

\* C11: with_node_name, with_node_id and node_has_id fail on a node that is
\* not an element (Text, Comment, Doctype) before the body runs or a value is
\* returned; on an element they never fail, the body receives the tag name /
\* the id attribute, and node_has_id(e, id) is true iff e has an id attribute
\* whose value equals id exactly.
C11_NameAndIdQueries ==
    last.op \in {"with_node_name", "with_node_id", "node_has_id"} =>
        LET n == last.self
        IN  /\ ctor[n] \in {"Text", "Comment", "Doctype"} => last.ret = "fail"
            /\ ctor[n] = "Element" => last.ret # "fail"
            /\ (last.op = "with_node_name" /\ ctor[n] = "Element") =>
                  last.ret = "called" /\ last.name = tag_name[n]
            /\ (last.op = "with_node_id" /\ ctor[n] = "Element") =>
                  IF id_attr[n].some
                  THEN last.ret = "called_some" /\ last.name = id_attr[n].val
                  ELSE last.ret = "called_none"
            /\ (last.op = "node_has_id" /\ ctor[n] = "Element") =>
                  (last.ret = "true" <=> id_attr[n] = SomeStr(last.name))

\* C11 happens: node_has_id was asked, on an element, for an id that differs
\* from the element's id in case only, and answered false.
C11_Witness ==
    /\ last.op = "node_has_id"
    /\ ctor[last.self] = "Element"
    /\ id_attr[last.self].some
    /\ id_attr[last.self].val # last.name
    /\ last.ret = "false"
    /\ \E n \in Nodes : ctor[n] = "Text"

----------------------------------------------------------------------------
(* Properties of the layout auxiliary data *)

\* C12: initialize_layout_data(n) on a node that has layout data returns
\* absent and leaves the node's layout data as it was; otherwise it creates a
\* LayoutData with style and flow absent, stores it in n's layout_data slot,
\* so that n has layout data afterwards, and returns that same box.
C12_InitializeLayoutData ==
    [][last'.op = "initialize_layout_data" =>
          LET n == last'.self
          IN  IF layout_data[n] # None
              THEN /\ last'.ret = "none"
                   /\ layout_data'[n] = layout_data[n]
                   /\ records' = records
              ELSE /\ last'.ret = "some"
                   /\ Len(records') = Len(records) + 1
                   /\ layout_data'[n] # None
                   /\ layout_data'[n] = last'.node
                   /\ records'[last'.node].style = None
                   /\ records'[last'.node].flow = None]_vars

\* C13: after initialize_style_for_subtree(root, refs) returns, every node of
\* root's subtree has layout data.
C13_SubtreeInitialized ==
    (last.op = "initialize_style_for_subtree" /\ last.ret = "done") =>
        \A n \in Subtree(last.self) : layout_data[n] # None

\* C14: a call of initialize_style_for_subtree appends to refs exactly one
\* entry for each node of the subtree that had no layout data when the call
\* began, and a second call on the same unchanged subtree appends nothing
\* and leaves every box as it was.
C14_SubtreeIdempotent ==
    [][(last'.op = "initialize_style_for_subtree" /\ last'.ret = "done") =>
          /\ Len(refs') =
                Len(refs) + Cardinality({n \in Subtree(last'.self) : layout_data[n] = None})
          /\ SubSeq(refs', 1, Len(refs)) = refs
          /\ (/\ last.op = "initialize_style_for_subtree"
              /\ last.ret = "done"
              /\ last.self = last'.self) =>
                  /\ refs' = refs
                  /\ records' = records]_vars

\* C16: a LayoutData box is created at most once for a node, the box of a
\* node is never replaced, and refs never holds two boxes of the same node.
C16_OneRecordPerNode ==
    /\ \A i, j \in 1..Len(records) : records[i].node = records[j].node => i = j
    /\ \A i, j \in 1..Len(refs) :
          i # j => records[refs[i]].node # records[refs[j]].node

\* C17: append_child leaves the layout slot of every node as it was, and
\* initialize_layout_data and initialize_style_for_subtree leave parent,
\* first_child, last_child, prev_sibling and next_sibling of every node as
\* they were.  The layout slot is layout_data and the slot the layout code
\* assigns.
C17_WriteDiscipline ==
    [][/\ last'.op = "append_child" =>
             /\ layout_data' = layout_data
             /\ data' = data
       /\ last'.op \in {"initialize_layout_data", "initialize_style_for_subtree"} =>
             rel' = rel]_vars

\* C17 happens: the layout task gave a node its box, and the owner task then
\* appended that node to a parent.
C17_Witness ==
    /\ last.op = "append_child"
    /\ last.ret = "ok"
    /\ data[last.arg] # None
    /\ parent_node[last.arg] = last.self

----------------------------------------------------------------------------
(* Properties of the downcasts *)

\* C15: a node built by Text::new has is_text true and as_text succeeds on
\* it; a node built by Comment::new or Doctype::new has is_text and
\* is_element false and as_text and as_element fail on it; as_text,
\* as_element and as_image_element succeed exactly when is_text, is_element
\* and is_image_element are true.
C15_TaggedDowncast ==
    /\ \A n \in Nodes :
          /\ ctor[n] = "Text" => is_text(n)
          /\ ctor[n] \in {"Comment", "Doctype"} => ~is_text(n) /\ ~is_element(n)
    /\ last.op = "as_text" =>
          /\ last.ret = "ok" <=> is_text(last.self)
          /\ ctor[last.self] = "Text" => last.ret = "ok"
          /\ ctor[last.self] \in {"Comment", "Doctype"} => last.ret = "fail"
    /\ last.op = "as_element" =>
          /\ last.ret = "ok" <=> is_element(last.self)
          /\ ctor[last.self] \in {"Comment", "Doctype"} => last.ret = "fail"
    /\ last.op = "as_image_element" =>
          (last.ret = "ok" <=> is_image_element(last.self))

----------------------------------------------------------------------------
(* Global properties of the tree *)

\* C18: in every state reached by append_child calls, no node is its own
\* proper ancestor; append_child(B, A) does not succeed when A is an
\* ancestor of B.
C18_ParentAcyclic ==
    /\ \A n \in Nodes : n \notin ProperAncestors(n)
    /\ last.op = "append_child" /\ last.ret = "ok" =>
          last.self \notin Subtree(last.arg) \ {last.arg}

\* C19: named_ancestor_node ends after at most as many upward steps as there
\* are nodes, and traverse_preorder with a visitor that never stops ends.
C19_Termination ==
    /\ last.op = "named_ancestor_node" => last.ret # "diverge"
    /\ last.op = "traverse_preorder" /\ last.arg = None =>
          last.ret \notin {"overflow", "diverge"}

\* C20: an append_child call that fails has written no relation field, and
\* the recorded last child of a node never has a next sibling, so the
\* assertion on the old last child, made after child.parent is written,
\* never fires.
C20_NoPartialMutation ==
    [][ /\ last'.op = "append_child" /\ last'.ret = "fail" => rel' = rel
        /\ \A n \in Nodes :
              last_child'[n] # None => next_sibling'[last_child'[n]] = None
      ]_vars

\* A failed append_child on a tree that already has a link.
C20_Witness ==
    /\ last.op = "append_child"
    /\ last.ret = "fail"
    /\ last.self # last.arg
    /\ \E n \in Nodes : first_child[n] # None

====
